---- MODULE Spec2Model ----
(***************************************************************************)
(* The shooting-method solver of the notebook "Finding the ground state    *)
(* energy": the fixed-step RK4 integrator RungeKutta2d and the secant cell *)
(* that drives it.                                                         *)
(*                                                                         *)
(* Numbers.  The notebook computes in IEEE double precision.  Here a       *)
(* number is a record [t, d]:                                              *)
(*   t = "fin"   a finite value: a decimal fixed-point number of twelve    *)
(*               fractional digits held in four limbs d; every arithmetic  *)
(*               operation rounds its exact result to the nearest          *)
(*               representable value;                                      *)
(*   t = "inf"   +infinity or -infinity (the sign is d[4]);                *)
(*   t = "nan"   not-a-number;                                             *)
(*   t = "undef" a name that has not been assigned yet.                    *)
(* Division by zero and the arithmetic of inf and nan follow numpy's       *)
(* float64 (a warning, never an exception).                                *)
(*                                                                         *)
(* Units.  The SI constants of the notebook are kept with their decimal    *)
(* mantissas in units that are powers of ten: mass 1e-31 kg, action        *)
(* 1e-34 J s, energy 1e-19 J, length 1e-9 m.  In these units 2m/h_bar^2 *  *)
(* energy * length is again 1/length, so every formula of the notebook is  *)
(* kept as it is written.                                                  *)
(*                                                                         *)
(* Inputs.  The notebook writes N = 1000, E1 = 0.0, E2 = e and             *)
(* tolerance = e/1000 as literals.  SpecRef runs the cell with exactly     *)
(* these literals (and on two coarser grids); Spec runs it, with every     *)
(* call of RungeKutta2d taken statement by statement, on small grids and   *)
(* with other literals for the guesses and the tolerance as well.          *)
(***************************************************************************)
EXTENDS Integers, Sequences, FiniteSets, TLC

Base == 10000
Top  == 40000

\* ------------------------------------------------------------------------
\* Finite numbers.  d = <<d0, d1, d2, d3>> stands for
\*   (d3 * Base^3 + d2 * Base^2 + d1 * Base + d0) / Base^3
\* with d0, d1, d2 in 0..Base-1 and the integer part d3 in -Top..Top-1
\* (negative numbers are kept "floored": -0.5 is <<0, 0, 5000, -1>>).
\* A result whose integer part leaves that range overflows to +-inf, as a
\* float64 does beyond its own range.
\* ------------------------------------------------------------------------
Inf(s) == [t |-> "inf", d |-> <<0, 0, 0, s>>]
NaN    == [t |-> "nan", d |-> <<0, 0, 0, 0>>]
Undef  == [t |-> "undef", d |-> <<0, 0, 0, 0>>]

Pack(d) == IF d[4] >= Top THEN Inf(1)
           ELSE IF d[4] < 0 - Top THEN Inf(-1)
           ELSE [t |-> "fin", d |-> d]

\* the number with the limb sums t0..t3 (any integers), carries propagated
Norm(t0, t1, t2, t3) ==
    LET u1 == t1 + (t0 \div Base)
        u2 == t2 + (u1 \div Base)
        u3 == t3 + (u2 \div Base)
    IN  Pack(<<t0 % Base, u1 % Base, u2 % Base, u3>>)

Zero == [t |-> "fin", d |-> <<0, 0, 0, 0>>]

\* the integer n, -Top <= n < Top
Whole(n) == [t |-> "fin", d |-> <<0, 0, 0, n>>]

\* the decimal i.ffff gggg kkkk (three groups of four digits)
Dec(i, f, g, k) == [t |-> "fin", d |-> <<k, g, f, i>>]

IsFin(x) == x.t = "fin"
IsNaN(x) == x.t = "nan" \/ x.t = "undef"

\* -1, 0, 1: the sign of a finite or infinite number
Sign(x) == IF x.d[4] < 0 THEN -1
           ELSE IF x.d = <<0, 0, 0, 0>> THEN 0 ELSE 1

FNeg(x) == IF IsNaN(x) THEN NaN
           ELSE IF x.t = "inf" THEN Inf(0 - x.d[4])
           ELSE Norm(0 - x.d[1], 0 - x.d[2], 0 - x.d[3], 0 - x.d[4])

FAbs(x) == IF Sign(x) < 0 THEN FNeg(x) ELSE x

FAdd(x, y) ==
    IF IsNaN(x) \/ IsNaN(y) THEN NaN
    ELSE IF x.t = "inf" /\ y.t = "inf" THEN (IF x.d = y.d THEN x ELSE NaN)
    ELSE IF x.t = "inf" THEN x
    ELSE IF y.t = "inf" THEN y
    ELSE Norm(x.d[1] + y.d[1], x.d[2] + y.d[2], x.d[3] + y.d[3],
              x.d[4] + y.d[4])

FSub(x, y) ==
    IF IsNaN(x) \/ IsNaN(y) THEN NaN
    ELSE IF x.t = "inf" \/ y.t = "inf" THEN FAdd(x, FNeg(y))
    ELSE Norm(x.d[1] - y.d[1], x.d[2] - y.d[2], x.d[3] - y.d[3],
              x.d[4] - y.d[4])

\* the exact product has six fractional limbs; the lowest three are rounded
\* away (to nearest, a tie upwards)
MulFin(a, b) ==
    LET p0 == a[1] * b[1]
        p1 == a[1] * b[2] + a[2] * b[1]
        p2 == a[1] * b[3] + a[2] * b[2] + a[3] * b[1]
        p3 == a[1] * b[4] + a[2] * b[3] + a[3] * b[2] + a[4] * b[1]
        p4 == a[2] * b[4] + a[3] * b[3] + a[4] * b[2]
        p5 == a[3] * b[4] + a[4] * b[3]
        p6 == a[4] * b[4]
        c2 == (p1 + (p0 \div Base)) \div Base
        c3 == (p2 + c2 + (Base \div 2)) \div Base
    IN  Norm(p3 + c3, p4, p5, p6)

FMul(x, y) ==
    IF IsNaN(x) \/ IsNaN(y) THEN NaN
    ELSE IF x.t = "inf" \/ y.t = "inf"
         THEN (IF Sign(x) = 0 \/ Sign(y) = 0 THEN NaN
               ELSE Inf(Sign(x) * Sign(y)))
    ELSE MulFin(x.d, y.d)

\* a / k for an integer k in 1..Base, rounded to nearest (a tie upwards)
DivSmall(a, k) ==
    LET t2 == (a[4] % k) * Base + a[3]
        t1 == (t2 % k) * Base + a[2]
        t0 == (t1 % k) * Base + a[1]
    IN  Norm((t0 \div k) + (IF 2 * (t0 % k) >= k THEN 1 ELSE 0),
             t1 \div k, t2 \div k, a[4] \div k)

\* ------------------------------------------------------------------------
\* Division by an arbitrary number: long division on magnitudes, which are
\* little-endian sequences of limbs in 0..Base-1 without a leading (most
\* significant) zero limb; <<>> is zero.
\* ------------------------------------------------------------------------
RECURSIVE Strip(_)
Strip(a) == IF a = <<>> THEN a
            ELSE IF a[Len(a)] = 0 THEN Strip(SubSeq(a, 1, Len(a) - 1)) ELSE a

Limb(a, i) == IF i <= Len(a) THEN a[i] ELSE 0

\* a - b for a >= b
RECURSIVE MSubFrom(_, _, _, _)
MSubFrom(a, b, i, c) ==
    IF i > Len(a) THEN <<>>
    ELSE LET x == a[i] - Limb(b, i) - c
         IN  IF x < 0 THEN <<x + Base>> \o MSubFrom(a, b, i + 1, 1)
                      ELSE <<x>> \o MSubFrom(a, b, i + 1, 0)

MSub(a, b) == Strip(MSubFrom(a, b, 1, 0))

RECURSIVE MCmpAt(_, _, _)
MCmpAt(a, b, i) == IF i = 0 THEN 0
                   ELSE IF a[i] > b[i] THEN 1
                   ELSE IF a[i] < b[i] THEN -1
                   ELSE MCmpAt(a, b, i - 1)

\* -1, 0, 1 as a < b, a = b, a > b
MCmp(a, b) == IF Len(a) > Len(b) THEN 1
              ELSE IF Len(a) < Len(b) THEN -1
              ELSE MCmpAt(a, b, Len(a))

RECURSIVE MMulSmallFrom(_, _, _, _)
MMulSmallFrom(a, k, i, c) ==
    IF i > Len(a) THEN (IF c = 0 THEN <<>> ELSE <<c>>)
    ELSE LET x == a[i] * k + c
         IN  <<x % Base>> \o MMulSmallFrom(a, k, i + 1, x \div Base)

\* a * k for one limb k
MMulSmall(a, k) == IF k = 0 THEN <<>> ELSE MMulSmallFrom(a, k, 1, 0)

\* the largest q in lo..hi with q * b <= r
RECURSIVE QSearch(_, _, _, _)
RECURSIVE QPick(_, _, _, _, _)
QSearch(r, b, lo, hi) ==
    IF lo = hi THEN lo ELSE QPick(r, b, lo, hi, (lo + hi + 1) \div 2)

QPick(r, b, lo, hi, mid) ==
    IF MCmp(MMulSmall(b, mid), r) <= 0 THEN QSearch(r, b, mid, hi)
                                       ELSE QSearch(r, b, lo, mid - 1)

\* long division from limb i of a downwards with running remainder r:
\* [q |-> quotient limbs i..1, r |-> final remainder]
RECURSIVE MDivFrom(_, _, _, _)
RECURSIVE MDivLimb(_, _, _, _)
RECURSIVE MDivRest(_, _, _, _, _)
MDivFrom(a, b, i, r) ==
    IF i = 0 THEN [q |-> <<>>, r |-> r]
    ELSE MDivLimb(a, b, i, Strip(<<a[i]>> \o r))

\* r1 is the remainder with limb i brought down
MDivLimb(a, b, i, r1) == MDivRest(a, b, i, r1, QSearch(r1, b, 0, Base - 1))

\* q1 is limb i of the quotient
MDivRest(a, b, i, r1, q1) ==
    [MDivFrom(a, b, i - 1, MSub(r1, MMulSmall(b, q1))) EXCEPT !.q = @ \o <<q1>>]

\* the magnitude of a finite number, in units of Base^-3
MagOf(d) == Strip(<<d[1], d[2], d[3], d[4] % Base, d[4] \div Base>>)
Mag(x)   == MagOf(FAbs(x).d)

\* 1 when the quotient of sign s is to be rounded up in magnitude; c compares
\* twice the remainder with the divisor
RoundUp(s, c) == IF (s > 0 /\ c >= 0) \/ (s < 0 /\ c > 0) THEN 1 ELSE 0

\* the number of sign s and magnitude q + up
DivPack(s, q, up) ==
    IF Len(q) > 5 \/ Limb(q, 5) * Base + Limb(q, 4) >= Top THEN Inf(s)
    ELSE Norm(s * (Limb(q, 1) + up), s * Limb(q, 2), s * Limb(q, 3),
              s * (Limb(q, 5) * Base + Limb(q, 4)))

DivRound(s, qr, den) ==
    DivPack(s, Strip(qr.q), RoundUp(s, MCmp(MMulSmall(qr.r, 2), den)))

DivMag(s, num, den) == DivRound(s, MDivFrom(num, den, Len(num), <<>>), den)

\* x / y for finite nonzero x and y, rounded to nearest (a tie upwards)
DivFin(x, y) == DivMag(Sign(x) * Sign(y), <<0, 0, 0>> \o Mag(x), Mag(y))

FDiv(x, y) ==
    IF IsNaN(x) \/ IsNaN(y) THEN NaN
    ELSE IF x.t = "inf" THEN (IF y.t = "inf" THEN NaN
                              ELSE Inf(IF Sign(y) < 0 THEN 0 - Sign(x)
                                                      ELSE Sign(x)))
    ELSE IF y.t = "inf" THEN Zero
    ELSE IF Sign(y) = 0 THEN (IF Sign(x) = 0 THEN NaN ELSE Inf(Sign(x)))
    ELSE IF Sign(x) = 0 THEN Zero
    ELSE IF y.d[1] = 0 /\ y.d[2] = 0 /\ y.d[3] = 0 /\ y.d[4] <= Base
    THEN (IF y.d[4] > 0 THEN DivSmall(x.d, y.d[4])
                        ELSE DivSmall(FNeg(x).d, 0 - y.d[4]))
    ELSE DivFin(x, y)

\* -1, 0, 1 as x < y, x = y, x > y, for numbers that are not nan
FCmp(x, y) ==
    IF x.t = "inf" \/ y.t = "inf"
    THEN (IF x.t = y.t /\ x.d = y.d THEN 0
          ELSE IF x.t = "inf" THEN Sign(x) ELSE 0 - Sign(y))
    ELSE IF x.d[4] # y.d[4] THEN (IF x.d[4] > y.d[4] THEN 1 ELSE -1)
    ELSE IF x.d[3] # y.d[3] THEN (IF x.d[3] > y.d[3] THEN 1 ELSE -1)
    ELSE IF x.d[2] # y.d[2] THEN (IF x.d[2] > y.d[2] THEN 1 ELSE -1)
    ELSE IF x.d[1] # y.d[1] THEN (IF x.d[1] > y.d[1] THEN 1 ELSE -1)
    ELSE 0

\* the comparisons of floats: false when either side is nan
FGT(x, y) == ~IsNaN(x) /\ ~IsNaN(y) /\ FCmp(x, y) > 0
FLT(x, y) == ~IsNaN(x) /\ ~IsNaN(y) /\ FCmp(x, y) < 0
FLE(x, y) == ~IsNaN(x) /\ ~IsNaN(y) /\ FCmp(x, y) <= 0
FEq(x, y) == ~IsNaN(x) /\ ~IsNaN(y) /\ FCmp(x, y) = 0

\* ------------------------------------------------------------------------
\* The constants of the notebook
\* ------------------------------------------------------------------------
m     == Dec(9, 1093, 8370, 2000)    \* 9.109383702e-31 kg
e     == Dec(1, 6021, 7663, 4000)    \* 1.602176634e-19 C (J per eV)
h_bar == Dec(1,  545, 7181, 7000)    \* 1.054571817e-34 J s
a     == Dec(0,  500,    0,    0)    \* 5e-11 m

xstart == FNeg(a)
xend   == a

\* the number of grid points of the notebook
NRef == 1000

\* the bound of the model: no run takes more iterations of the secant loop
MaxIter == 10

VARIABLES
    N, h, xpoints,              \* the grid cell's globals
    lit,                        \* the literals written in the secant cell
    E1, E2, E3, wf1, wf2, tolerance,   \* the secant cell's globals
    pc,                         \* the statement of the secant cell to run next
    rk,                         \* "idle", "loop" or "returned": the call state
    frame,                      \* the locals of the running RungeKutta2d call
    ret,                        \* the value the last call returned
    out, reported,              \* what the cell has printed
    iter, calls, steps, at, pos, log, head   \* history kept for the properties

gridVars  == <<N, h, xpoints>>
cellVars  == <<E1, E2, E3, wf1, wf2, tolerance>>
callVars  == <<rk, frame, ret>>
printVars == <<out, reported>>
histVars  == <<steps, at, pos, log>>
vars == <<N, h, xpoints, lit, E1, E2, E3, wf1, wf2, tolerance, pc, rk, frame,
          ret, out, reported, iter, calls, steps, at, pos, log, head>>

\* ------------------------------------------------------------------------
\* The grid
\* ------------------------------------------------------------------------
\* the least integer >= x, for finite x
CeilInt(x) == x.d[4] + (IF x.d[1] = 0 /\ x.d[2] = 0 /\ x.d[3] = 0 THEN 0 ELSE 1)

\* np.arange(start, stop, step): ceil((stop - start)/step) points start + i*step
arange(start, stop, step) ==
    LET len == CeilInt(FDiv(FSub(stop, start), step))
    IN  [i \in 1..len |-> FAdd(start, FMul(Whole(i - 1), step))]

\* ------------------------------------------------------------------------
\* The differential equations and the integrator as functions
\* ------------------------------------------------------------------------
V(x) == Zero

\* (2*m)/h_bar**2, the constant factor of d_phi
TwoMOverHbar2 == FDiv(FMul(Whole(2), m), FMul(h_bar, h_bar))

schrodinger(r, x, E) ==
    LET psi   == r[1]
        phi   == r[2]
        d_psi == phi
        d_phi == FMul(FMul(TwoMOverHbar2, FSub(V(x), E)), psi)
    IN  <<d_psi, d_phi>>

VAdd(u, v)   == <<FAdd(u[1], v[1]), FAdd(u[2], v[2])>>
VScale(c, v) == <<FMul(c, v[1]), FMul(c, v[2])>>
VOver(v, c)  == <<FDiv(v[1], c), FDiv(v[2], c)>>

Half == Dec(0, 5000, 0, 0)

\* h*schrodinger(r, x, E)
K(r, x, E) == VScale(h, schrodinger(r, x, E))

\* a faulty variant of RK4r: the weight 2 of k3 is left out
RK4rUnweighted(r, k1, k2, k3, k4) ==
    VAdd(r, VOver(VAdd(VAdd(VAdd(k1, VScale(Whole(2), k2)), k3), k4),
                  Whole(6)))

\* r + (k1 + 2*k2 + 2*k3 + k4)/6
RK4r(r, k1, k2, k3, k4) ==
    VAdd(r, VOver(VAdd(VAdd(VAdd(k1, VScale(Whole(2), k2)),
                            VScale(Whole(2), k3)), k4), Whole(6)))

\* the lines k4 = ..., k3 = ..., k2 = ..., each given the k's before it
RK4k4(r, x, E, k1, k2, k3) ==
    RK4r(r, k1, k2, k3, K(VAdd(r, k3), FAdd(x, h), E))

\* a faulty variant of RK4k3: k3 is evaluated with the slope k1 again
RK4k3FromK1(r, x, E, k1, k2) ==
    RK4k4(r, x, E, k1, k2,
          K(VAdd(r, VScale(Half, k1)), FAdd(x, FMul(Half, h)), E))

RK4k3(r, x, E, k1, k2) ==
    RK4k4(r, x, E, k1, k2,
          K(VAdd(r, VScale(Half, k2)), FAdd(x, FMul(Half, h)), E))

RK4k2(r, x, E, k1) ==
    RK4k3(r, x, E, k1,
          K(VAdd(r, VScale(Half, k1)), FAdd(x, FMul(Half, h)), E))

\* one pass of the body of "for x in xpoints" after the two appends: the new r
RK4Step(r, x, E) == RK4k2(r, x, E, K(r, x, E))

\* the loop over xs[lo..hi] started with r: the final r and what was appended
RECURSIVE RKRun(_, _, _, _, _)
RECURSIVE RKRight(_, _, _, _, _)
RKRun(r, xs, lo, hi, E) ==
    IF lo > hi THEN [r |-> r, psi |-> <<>>, phi |-> <<>>]
    ELSE IF lo = hi
    THEN [r |-> RK4Step(r, xs[lo], E), psi |-> <<r[1]>>, phi |-> <<r[2]>>]
    ELSE RKRight(RKRun(r, xs, lo, (lo + hi) \div 2, E), xs,
                 (lo + hi) \div 2 + 1, hi, E)

\* the loop over xs[lo..hi] after the passes that gave left
RKRight(left, xs, lo, hi, E) ==
    \* the test only fixes the order of evaluation: left, then the rest
    IF Len(left.psi) = 0 THEN left
    ELSE [RKRun(left.r, xs, lo, hi, E) EXCEPT !.psi = left.psi \o @,
                                              !.phi = left.phi \o @]

\* the two appends after the loop, and the return of the psi values alone
Returned(r, psi, phi) ==
    LET psi_points == Append(psi, r[1])
        phi_points == Append(phi, r[2])
    IN  <<psi_points>>

RKDone(run) == Returned(run.r, run.psi, run.phi)

\* the whole call as a function of its arguments (and of the global h)
RungeKutta2d(xs, E) ==
    LET initial_psi == Zero
        initial_phi == Whole(1)
    IN  RKDone(RKRun(<<initial_psi, initial_phi>>, xs, 1, Len(xs), E))

\* arr[0, n] for a numpy array arr of one row: n counts from 0, a negative n
\* from the end; InRange is false where numpy raises IndexError
InRange(arr, n) == 0 - Len(arr[1]) <= n /\ n < Len(arr[1])
At(arr, n)      == IF n >= 0 THEN arr[1][n + 1] ELSE arr[1][Len(arr[1]) + n + 1]

\* ------------------------------------------------------------------------
\* The runs that are explored
\* ------------------------------------------------------------------------
Literals(x1, x2, tol) == [E1 |-> x1, E2 |-> x2, tolerance |-> tol]

\* E1 = 0.0, E2 = e, tolerance = e/1000 as the notebook has them
RefLiterals == Literals(Zero, e, FDiv(e, Whole(1000)))

\* the notebook's literals on small grids, and other guesses and tolerances
Inputs ==
    { [N |-> 1, lit |-> RefLiterals],
      [N |-> 2, lit |-> RefLiterals],
      [N |-> 3, lit |-> RefLiterals],
      \* the gap after the first iteration is the tolerance itself
      [N |-> 1, lit |-> Literals(Whole(100), Zero, Dec(36, 6255, 8588, 7900))],
      \* the gap of the two guesses is the tolerance itself
      [N |-> 2, lit |-> Literals(Zero, FDiv(e, Whole(1000)), FDiv(e, Whole(1000)))],
      \* equal guesses
      [N |-> 2, lit |-> Literals(e, e, FDiv(e, Whole(1000)))],
      \* guesses so close that the two residuals round to the same number
      [N |-> 2, lit |-> Literals(Zero, Dec(0, 0, 0, 100), Dec(0, 0, 0, 10))],
      [N |-> 2, lit |-> Literals(Zero, Dec(0, 0, 0, 3), Dec(0, 0, 0, 1))],
      \* a first guess whose residual is exactly zero
      [N |-> 2, lit |-> Literals(Dec(61, 9191, 7606, 4532), e, FDiv(e, Whole(1000)))] }

\* the notebook's grid and two coarser ones
RefGrids == {NRef, 100, 10}

NoFrame == [E |-> Undef, r |-> <<Undef, Undef>>, i |-> 0,
            psi_points |-> <<>>, phi_points |-> <<>>]

\* the state after the grid cell has run with N = n, before the secant cell
Start(n, l) ==
    /\ N = n
    /\ h = FDiv(FSub(xend, xstart), Whole(n))
    /\ xpoints = arange(xstart, xend, h)
    /\ lit = l
    /\ E1 = Undef /\ E2 = Undef /\ E3 = Undef
    /\ wf1 = Undef /\ wf2 = Undef /\ tolerance = Undef
    /\ pc = "E1"
    /\ rk = "idle" /\ frame = NoFrame /\ ret = <<<<>>>>
    /\ out = <<>> /\ reported = Undef
    /\ iter = 0 /\ calls = 0 /\ steps = 0 /\ at = <<>> /\ pos = Undef
    /\ log = <<>>
    /\ head = [E1 |-> Undef, E2 |-> Undef, wf1 |-> Undef, wf2 |-> Undef]

Init    == \E c \in Inputs : Start(c.N, c.lit)
InitRef == \E n \in RefGrids : Start(n, RefLiterals)

\* ------------------------------------------------------------------------
\* RungeKutta2d, statement by statement
\* ------------------------------------------------------------------------
Sites == {"wf1", "wf2", "wf1r", "wf2r"}

\* the energy passed at a call site, and the statement after the site
\* a faulty variant of Arg: inside the loop the two energies are taken in the
\* other order
ArgSwappedInLoop(site) == IF site \in {"wf1", "wf2r"} THEN E1 ELSE E2

Arg(site)   == IF site \in {"wf1", "wf1r"} THEN E1 ELSE E2
After(site) == CASE site = "wf1"  -> "wf2"
                 [] site = "wf2"  -> "tolerance"
                 [] site = "wf1r" -> "wf2r"
                 [] site = "wf2r" -> "print"

\* a faulty variant of RKCall: psi_points is a list kept from call to call,
\* never emptied
RKCallKeepLists ==
    /\ pc \in Sites /\ rk = "idle"
    /\ rk' = "loop"
    /\ frame' = [E |-> Arg(pc), r |-> <<Zero, Whole(1)>>, i |-> 1,
                 psi_points |-> ret[1], phi_points |-> <<>>]
    /\ calls' = calls + 1
    /\ steps' = 0 /\ at' = <<>> /\ pos' = Undef
    /\ UNCHANGED <<gridVars, lit, cellVars, pc, ret, printVars, iter, log, head>>

\* the call: the locals are initialised
RKCall ==
    /\ pc \in Sites /\ rk = "idle"
    /\ rk' = "loop"
    /\ frame' = [E |-> Arg(pc), r |-> <<Zero, Whole(1)>>, i |-> 1,
                 psi_points |-> <<>>, phi_points |-> <<>>]
    /\ calls' = calls + 1
    /\ steps' = 0 /\ at' = <<>> /\ pos' = Undef
    /\ UNCHANGED <<gridVars, lit, cellVars, pc, ret, printVars, iter, log, head>>

\* a faulty variant of RKLoop: the loop takes its x by removing it from the
\* grid
RKLoopPop ==
    /\ rk = "loop" /\ frame.i <= Len(xpoints)
    /\ LET x == xpoints[frame.i]
       IN  /\ frame' = [frame EXCEPT
                          !.psi_points = Append(@, frame.r[1]),
                          !.phi_points = Append(@, frame.r[2]),
                          !.r = RK4Step(frame.r, x, frame.E)]
           /\ pos' = FAdd(x, h)
    /\ xpoints' = Tail(xpoints)
    /\ steps' = steps + 1
    /\ at' = Append(at, steps)
    /\ UNCHANGED <<N, h, lit, cellVars, pc, rk, ret, printVars, iter, calls,
                   log, head>>

\* one pass of "for x in xpoints"
RKLoop ==
    /\ rk = "loop" /\ frame.i <= Len(xpoints)
    /\ LET x == xpoints[frame.i]
       IN  /\ frame' = [frame EXCEPT
                          !.psi_points = Append(@, frame.r[1]),
                          !.phi_points = Append(@, frame.r[2]),
                          !.r = RK4Step(frame.r, x, frame.E),
                          !.i = @ + 1]
           /\ pos' = FAdd(x, h)
    /\ steps' = steps + 1
    /\ at' = Append(at, steps)
    /\ UNCHANGED <<gridVars, lit, cellVars, pc, rk, ret, printVars, iter,
                   calls, log, head>>

\* a faulty variant of RKReturn: the point at xend is reached by one step
\* too many
RKReturnOverrun ==
    /\ rk = "loop" /\ frame.i > Len(xpoints)
    /\ ret' = Returned(RK4Step(frame.r, pos, frame.E), frame.psi_points,
                       frame.phi_points)
    /\ log' = Append(log, [E |-> frame.E, trace |-> ret'])
    /\ steps' = steps + 1
    /\ at' = Append(at, steps + 1)
    /\ rk' = "returned"
    /\ frame' = NoFrame
    /\ UNCHANGED <<gridVars, lit, cellVars, pc, printVars, iter, calls, pos,
                   head>>

\* the two appends after the loop, and the return
RKReturn ==
    /\ rk = "loop" /\ frame.i > Len(xpoints)
    /\ ret' = Returned(frame.r, frame.psi_points, frame.phi_points)
    /\ log' = Append(log, [E |-> frame.E, trace |-> ret'])
    /\ at' = Append(at, steps)
    /\ rk' = "returned"
    /\ frame' = NoFrame
    /\ UNCHANGED <<gridVars, lit, cellVars, pc, printVars, iter, calls, steps,
                   pos, head>>

\* wf1 = arr[0,N] or wf2 = arr[0,N], as the call site has it
SetWf(arr) ==
    IF InRange(arr, N)
    THEN /\ wf1' = (IF pc \in {"wf1", "wf1r"} THEN At(arr, N) ELSE wf1)
         /\ wf2' = (IF pc \in {"wf2", "wf2r"} THEN At(arr, N) ELSE wf2)
         /\ pc' = After(pc)
    ELSE /\ pc' = "IndexError"
         /\ UNCHANGED <<wf1, wf2>>

\* the assignment at the call site once the call has returned
AssignWf ==
    /\ pc \in Sites /\ rk = "returned"
    /\ rk' = "idle"
    /\ SetWf(ret)
    /\ UNCHANGED <<gridVars, lit, E1, E2, E3, tolerance, frame, ret, printVars,
                   iter, calls, histVars, head>>

\* wf = RungeKutta2d(xpoints, E)[0,N] as one step
EvalWf ==
    /\ pc \in Sites /\ rk = "idle"
    /\ calls' = calls + 1
    /\ SetWf(RungeKutta2d(xpoints, Arg(pc)))
    /\ UNCHANGED <<gridVars, lit, E1, E2, E3, tolerance, callVars, printVars,
                   iter, histVars, head>>

\* ------------------------------------------------------------------------
\* The secant cell, statement by statement
\* ------------------------------------------------------------------------
AssignE1 ==
    /\ pc = "E1"
    /\ E1' = lit.E1
    /\ pc' = "E2"
    /\ UNCHANGED <<gridVars, lit, E2, E3, wf1, wf2, tolerance, callVars,
                   printVars, iter, calls, histVars, head>>

AssignE2 ==
    /\ pc = "E2"
    /\ E2' = lit.E2
    /\ pc' = "wf1"
    /\ UNCHANGED <<gridVars, lit, E1, E3, wf1, wf2, tolerance, callVars,
                   printVars, iter, calls, histVars, head>>

AssignTolerance ==
    /\ pc = "tolerance"
    /\ tolerance' = lit.tolerance
    /\ pc' = "while"
    /\ UNCHANGED <<gridVars, lit, E1, E2, E3, wf1, wf2, callVars, printVars,
                   iter, calls, histVars, head>>

\* while abs(E2-E1) > tolerance:
While ==
    /\ pc = "while" /\ iter < MaxIter
    /\ IF FGT(FAbs(FSub(E2, E1)), tolerance)
       THEN /\ pc' = "E3"
            /\ head' = [E1 |-> E1, E2 |-> E2, wf1 |-> wf1, wf2 |-> wf2]
       ELSE /\ pc' = "final"
            /\ UNCHANGED head
    /\ UNCHANGED <<gridVars, lit, cellVars, callVars, printVars, iter, calls,
                   histVars>>

\* a faulty variant of SecantE3: the correction is added
SecantE3Plus ==
    /\ pc = "E3"
    /\ E3' = FAdd(E2, FDiv(FMul(wf2, FSub(E2, E1)), FSub(wf2, wf1)))
    /\ pc' = "E1s"
    /\ UNCHANGED <<gridVars, lit, E1, E2, wf1, wf2, tolerance, callVars,
                   printVars, iter, calls, histVars, head>>

\* E3 = E2 - wf2*(E2-E1)/(wf2-wf1)
SecantE3 ==
    /\ pc = "E3"
    /\ E3' = FSub(E2, FDiv(FMul(wf2, FSub(E2, E1)), FSub(wf2, wf1)))
    /\ pc' = "E1s"
    /\ UNCHANGED <<gridVars, lit, E1, E2, wf1, wf2, tolerance, callVars,
                   printVars, iter, calls, histVars, head>>

\* a faulty variant of ShiftE1: E1 takes the new estimate
ShiftE1Late ==
    /\ pc = "E1s"
    /\ E1' = E3
    /\ pc' = "E2s"
    /\ UNCHANGED <<gridVars, lit, E2, E3, wf1, wf2, tolerance, callVars,
                   printVars, iter, calls, histVars, head>>

\* E1 = E2
ShiftE1 ==
    /\ pc = "E1s"
    /\ E1' = E2
    /\ pc' = "E2s"
    /\ UNCHANGED <<gridVars, lit, E2, E3, wf1, wf2, tolerance, callVars,
                   printVars, iter, calls, histVars, head>>

\* E2 = E3
ShiftE2 ==
    /\ pc = "E2s"
    /\ E2' = E3
    /\ pc' = "wf1r"
    /\ UNCHANGED <<gridVars, lit, E1, E3, wf1, wf2, tolerance, callVars,
                   printVars, iter, calls, histVars, head>>

\* the gap and the answer to "Condition met?" that the loop prints
Printed(gap) == [gap |-> gap, met |-> FLT(gap, tolerance)]

\* print("...difference between E1,E2 is", abs(E2-E1), "Condition met?", ...)
PrintGap ==
    /\ pc = "print"
    /\ out' = Append(out, Printed(FAbs(FSub(E2, E1))))
    /\ iter' = iter + 1
    /\ pc' = "while"
    /\ UNCHANGED <<gridVars, lit, cellVars, callVars, reported, calls,
                   histVars, head>>

\* a faulty variant of PrintEnergy: the last guess E2 is reported
PrintEnergyLastGuess ==
    /\ pc = "final"
    /\ reported' = FDiv(E2, e)
    /\ pc' = "done"
    /\ UNCHANGED <<gridVars, lit, cellVars, callVars, out, iter, calls,
                   histVars, head>>

\* print(); print("The energy needs to be", E3/e, "eV")
PrintEnergy ==
    /\ pc = "final"
    /\ IF E3 = Undef
       THEN /\ pc' = "NameError"
            /\ UNCHANGED reported
       ELSE /\ reported' = FDiv(E3, e)
            /\ pc' = "done"
    /\ UNCHANGED <<gridVars, lit, cellVars, callVars, out, iter, calls,
                   histVars, head>>

Cell == \/ AssignE1 \/ AssignE2 \/ AssignTolerance \/ While \/ SecantE3
        \/ ShiftE1 \/ ShiftE2 \/ PrintGap \/ PrintEnergy

Next    == Cell \/ RKCall \/ RKLoop \/ RKReturn \/ AssignWf
NextRef == Cell \/ EvalWf

\* every grid of Inputs, with each call of the integrator run step by step
Spec == Init /\ [][Next]_vars

\* the notebook's literals, with each call of the integrator as one step
SpecRef == InitRef /\ [][NextRef]_vars

\* ------------------------------------------------------------------------
\* Properties
\* ------------------------------------------------------------------------
\* |E2 - E1| as the loop test and the print compute it
Gap == FAbs(FSub(E2, E1))

\* the statements of the loop body after E3 has been computed
AfterE3 == {"E1s", "E2s", "wf1r", "wf2r", "print"}

\* the statements of the loop body after the pair has been shifted
AfterShift == {"wf1r", "wf2r", "print"}

\* C1: whenever the secant loop has terminated, the two most recent iterates
\* satisfy |E2 - E1| < tolerance, strictly.
C1_ExitGapBelowTolerance == pc = "final" => FLT(Gap, tolerance)

\* C2: each iteration computes E3 = E2 - f(E2)(E2 - E1)/(f(E2) - f(E1)) from
\* the pair and the residuals it started with, then makes the old E2 the new
\* E1 and E3 the new E2; nothing else in the iteration assigns E1 or E2.
C2_SecantStepThenShift ==
    /\ [](pc \in AfterE3 =>
            E3 = FSub(head.E2, FDiv(FMul(head.wf2, FSub(head.E2, head.E1)),
                                    FSub(head.wf2, head.wf1))))
    /\ [](pc \in AfterShift => E1 = head.E2 /\ E2 = E3)
    /\ [][(pc \in AfterE3 \cup {"E3"}) =>
            ((E1' # E1 => pc = "E1s") /\ (E2' # E2 => pc = "E2s"))]_vars

\* a second iteration has computed E3 and shifted the pair
C2_Witness == pc = "print" /\ iter = 1 /\ IsFin(E3) /\ E1 # E2

\* C3: for a grid of n positions the returned trace has n+1 entries; entry 0
\* is the initial condition, entry i was appended after exactly i RK4 steps,
\* the last one once after the loop (n steps in all); and when the grid is
\* the N positions xstart, xstart+h, ..., xend-h the last entry is at xend.
C3_TraceOfGrid ==
    /\ rk = "loop" =>
          /\ Len(frame.psi_points) = steps
          /\ steps = frame.i - 1
    /\ rk = "returned" =>
          /\ Len(ret[1]) = Len(xpoints) + 1
          /\ steps = Len(xpoints)
          /\ ret[1][1] = Zero
          /\ (/\ Len(xpoints) = N
              /\ \A i \in 1..N : xpoints[i] = FAdd(xstart, FMul(Whole(i - 1), h))
              /\ xpoints[N] = FSub(xend, h))
             => pos = xend
    /\ rk # "idle" => /\ Len(at) = (IF rk = "loop" THEN steps ELSE steps + 1)
                      /\ \A j \in 1..Len(at) : at[j] = j - 1

\* a call has returned the trace of the two-point grid -a, 0
C3_Witness == rk = "returned" /\ N = 2 /\ Len(xpoints) = 2 /\ pos = xend
              /\ Len(ret[1]) = 3

\* C4: when the two residuals are equal at a secant step with E1 # E2 the
\* run fails there instead of going on, and no non-finite value is ever
\* carried into E2 or reported.
C4_EqualResidualsFail ==
    /\ pc \in AfterE3 => ~(FEq(head.wf1, head.wf2) /\ ~FEq(head.E1, head.E2))
    /\ E2 = Undef \/ IsFin(E2)
    /\ reported = Undef \/ IsFin(reported)

\* C5: when the two guesses are equal, no call of the integrator is made.
C5_EqualGuessesRejected == FEq(lit.E1, lit.E2) => calls = 0

\* C6: the loop stops only when the tolerance condition is met: a run that
\* has left the loop had one of its successive differences |E2 - E1| within
\* the tolerance.
C6_StopsOnlyWithinTolerance ==
    pc \in {"final", "done", "NameError"} =>
        \/ FLE(FAbs(FSub(lit.E2, lit.E1)), tolerance)
        \/ \E i \in DOMAIN out : FLE(out[i].gap, tolerance)

\* C7: the run of the notebook's configuration (N = 1000, E1 = 0, E2 = e,
\* tolerance = e/1000) leaves the loop after 7 iterations, ends without an
\* error, and reports an energy within 0.0001 eV of 37.603016 eV.
C7_ReferenceRun ==
    N = NRef =>
        /\ iter <= 7
        /\ pc \in {"final", "done"} => iter = 7
        /\ pc \notin {"NameError", "IndexError"}
        /\ pc = "done" =>
              FLE(FAbs(FSub(reported, Dec(37, 6030, 1600, 0))), Dec(0, 1, 0, 0))

\* the notebook's run has printed its energy
C7_Witness == N = NRef /\ pc = "done" /\ iter = 7 /\ IsFin(reported)

\* C8 as stated: with the guesses E1 = 0 and E2 = e every printed gap is at
\* most the gap before it, the first one at most the gap of the two guesses.
C8_GapNeverIncreases ==
    \A i \in DOMAIN out :
        FLE(out[i].gap, IF i = 1 THEN FAbs(FSub(lit.E2, lit.E1))
                                 ELSE out[i - 1].gap)

\* C8 amended: from the first iteration on, every printed gap is at most the
\* gap printed before it.
C8_GapNonIncreasingAfterFirst ==
    \A i \in DOMAIN out : i > 1 => FLE(out[i].gap, out[i - 1].gap)

\* the notebook's run has printed the gaps of all its seven iterations
C8_Witness == N = NRef /\ Len(out) = 7 /\ pc = "final"

\* C9: two calls with the same grid and the same E return the same trace,
\* whatever calls came before or between them: the trace is the function
\* RungeKutta2d of the grid and E.
C9_SameArgumentsSameTrace ==
    /\ \A i, j \in DOMAIN log : log[i].E = log[j].E => log[i].trace = log[j].trace
    /\ rk = "returned" => ret = RungeKutta2d(xpoints, log[Len(log)].E)

\* two calls with the same E have returned, with a call of another E between
C9_Witness ==
    \E i, j, k \in DOMAIN log :
        /\ i < k /\ k < j
        /\ log[i].E = log[j].E /\ log[k].E # log[i].E
        /\ log[i].trace = log[j].trace

\* C10: from its call to its return RungeKutta2d changes neither the grid
\* nor any global of the notebook (h, N, E1, E2, E3, wf1, wf2, tolerance),
\* prints nothing and leaves the caller where it was; m and h_bar are
\* constants of the module.
C10_CallChangesNoGlobal ==
    [][(rk # "returned" /\ rk' # "idle") =>
          UNCHANGED <<gridVars, cellVars, pc, printVars>>]_vars

\* a call made inside the loop has returned
C10_Witness == rk = "returned" /\ pc = "wf2r" /\ IsFin(wf1) /\ IsFin(wf2)

\* the last entry of the one row of a returned array
FinalEntry(arr) == arr[1][Len(arr[1])]

\* C11: the one value the cell takes from a returned trace is psi of the
\* trace's final entry, at the two first evaluations and at every
\* evaluation inside the loop, whatever the grid.
C11_ReadsFinalEntry ==
    (rk # "returned" /\ calls > 0) =>
        /\ pc \in {"wf2", "wf2r"} => wf1 = FinalEntry(ret)
        /\ pc \in {"tolerance", "print"} => wf2 = FinalEntry(ret)

\* C12: the returned array holds, for each of the N+1 positions, phi as
\* well as psi.
C12_TraceHoldsPsiAndPhi ==
    rk = "returned" =>
        /\ Len(ret) = 2
        /\ Len(ret[1]) = N + 1
        /\ Len(ret[2]) = N + 1

\* The classical fourth-order step written out by components:
\* F(r, x) = (phi, C*(V(x) - E)*psi) with C = 2m/h_bar^2, and h*F
StepF(r, x, E) ==
    <<r[2],
      FMul(FMul(TwoMOverHbar2, FSub(V(x), E)), r[1])>>

StepHF(r, x, E) ==
    <<FMul(h, StepF(r, x, E)[1]), FMul(h, StepF(r, x, E)[2])>>

\* r + k/2, r + k, x + h/2
StepHalfTo(r, k) ==
    <<FAdd(r[1], FDiv(k[1], Whole(2))), FAdd(r[2], FDiv(k[2], Whole(2)))>>

StepTo(r, k) == <<FAdd(r[1], k[1]), FAdd(r[2], k[2])>>

StepMid(x) == FAdd(x, FDiv(h, Whole(2)))

\* (k1 + 2 k2 + 2 k3 + k4)/6, one component
StepMean(c1, c2, c3, c4) ==
    FDiv(FAdd(FAdd(FAdd(c1, FMul(Whole(2), c2)), FMul(Whole(2), c3)), c4),
         Whole(6))

StepSum(r, k1, k2, k3, k4) ==
    <<FAdd(r[1], StepMean(k1[1], k2[1], k3[1], k4[1])),
      FAdd(r[2], StepMean(k1[2], k2[2], k3[2], k4[2]))>>

StepK4(r, x, E, k1, k2, k3) ==
    StepSum(r, k1, k2, k3, StepHF(StepTo(r, k3), FAdd(x, h), E))

StepK3(r, x, E, k1, k2) ==
    StepK4(r, x, E, k1, k2, StepHF(StepHalfTo(r, k2), StepMid(x), E))

StepK2(r, x, E, k1) ==
    StepK3(r, x, E, k1, StepHF(StepHalfTo(r, k1), StepMid(x), E))

ClassicalStep(r, x, E) == StepK2(r, x, E, StepHF(r, x, E))

\* C13: one pass of the loop of RungeKutta2d at grid position x replaces r by
\* r + (k1 + 2 k2 + 2 k3 + k4)/6 with k1 = h F(r, x), k2 = h F(r + k1/2,
\* x + h/2), k3 = h F(r + k2/2, x + h/2), k4 = h F(r + k3, x + h), and the
\* energy of the call is the same before and after the pass.
C13_StepIsClassicalRK4 ==
    [][(rk = "loop" /\ rk' = "loop") => (frame'.r = ClassicalStep(frame.r, xpoints[frame.i], frame.E) /\ frame'.E = frame.E /\ frame'.i = frame.i + 1)]_vars

\* a third pass has been made with a nonzero finite energy, and the passes
\* have changed both components of r
C13_Witness ==
    /\ rk = "loop" /\ steps >= 3
    /\ IsFin(frame.E) /\ frame.E # Zero
    /\ IsFin(frame.r[1]) /\ frame.r[1] # Zero
    /\ IsFin(frame.r[2]) /\ frame.r[2] # Whole(1)

\* what the cell takes from a call with energy E: RungeKutta2d(xpoints, E)[0,N]
Residual(E) == At(RungeKutta2d(xpoints, E), N)

\* A secant loop on the same literals that keeps the previous residual and
\* calls RungeKutta2d once per iteration: its names before the loop, the
\* effect of one iteration, and its names at the k-th loop test
OneCallStart ==
    [E1 |-> lit.E1, E2 |-> lit.E2,
     wf1 |-> Residual(lit.E1), wf2 |-> Residual(lit.E2)]

OneCallShift(p, E) ==
    [E1 |-> p.E2, E2 |-> E, wf1 |-> p.wf2, wf2 |-> Residual(E)]

OneCallNext(p) ==
    OneCallShift(p, FSub(p.E2, FDiv(FMul(p.wf2, FSub(p.E2, p.E1)),
                                    FSub(p.wf2, p.wf1))))

\* (the test on p only fixes the order of evaluation: p, then the rest)
RECURSIVE OneCallFrom(_, _)
OneCallFrom(p, k) ==
    IF k = 0 \/ p.E1 = Undef THEN p ELSE OneCallFrom(OneCallNext(p), k - 1)

OneCall(k) == OneCallFrom(OneCallStart, k)

\* C14: at every loop test wf1 and wf2 are the residuals of the stored E1 and
\* E2; the wf1 recomputed in an iteration is the wf2 the iteration started
\* with; and at the k-th loop test the names hold what the one-call secant
\* loop holds at its k-th loop test.
C14_ResidualsInStep ==
    /\ pc = "while" =>
          /\ wf1 = Residual(E1)
          /\ wf2 = Residual(E2)
          /\ [E1 |-> E1, E2 |-> E2, wf1 |-> wf1, wf2 |-> wf2] = OneCall(iter)
    /\ pc \in {"wf2r", "print"} => wf1 = head.wf2

\* the third loop test after two iterations with finite, distinct residuals
\* and two calls per iteration
C14_Witness ==
    /\ pc = "while" /\ iter = 2 /\ calls = 6
    /\ IsFin(wf1) /\ IsFin(wf2) /\ wf1 # wf2
    /\ E1 # E2

\* the literals of the run are already within the tolerance of each other
StartsWithin == FLE(FAbs(FSub(lit.E2, lit.E1)), lit.tolerance)

\* C15: when the two guesses are within the tolerance of each other (equal
\* guesses included) the loop body never runs, E3 stays unassigned and the
\* last print ends in NameError with nothing reported, after exactly two
\* calls of RungeKutta2d; and a run that reports has run the body at least
\* once and reports E3/e with E3 equal to the final E2.
C15_UnassignedE3Fails ==
    /\ StartsWithin =>
          /\ iter = 0 /\ out = <<>>
          /\ E3 = Undef /\ reported = Undef
          /\ pc \notin (AfterE3 \cup {"E3", "done"})
          /\ pc \in {"while", "final", "NameError"} => calls = 2
    /\ (iter >= 1 /\ pc \in {"final", "done", "NameError"}) =>
          /\ pc # "NameError"
          /\ E3 # Undef /\ E3 = E2
    /\ pc = "done" => (iter >= 1 /\ reported = FDiv(E2, e))
    /\ pc = "NameError" => StartsWithin

\* the run with equal guesses has ended in NameError after its two calls
C15_Witness ==
    /\ pc = "NameError" /\ calls = 2 /\ iter = 0
    /\ lit.E1 = lit.E2 /\ E3 = Undef /\ reported = Undef
    /\ IsFin(wf1) /\ IsFin(wf2)

====
